---- MODULE Spec2Model ----
(***************************************************************************)
(* A model of weather.py: the interactive loop of main(), the two service  *)
(* clients get_coordinates and get_weather_forecast, and the pure          *)
(* functions get_weather_condition, format_date and display_forecast.      *)
(*                                                                         *)
(* A string is a sequence of one-character strings.  A Python value that   *)
(* may be None is a tagged record: None, Float(x) or Dict(f), f a function *)
(* from keys to values.  A printed line is a record whose field k names    *)
(* the print statement that produced it, with the values it interpolates.  *)
(* main() is cut at its blocking calls: pc names the call that is pending. *)
(* A local of main() that is dead (assigned again before it is next read)  *)
(* is returned to its unbound value, which no statement can observe.       *)
(***************************************************************************)
EXTENDS Integers, Sequences, FiniteSets, TLC

VARIABLES pc, ev, city, state, lat, lon, weather_data, out, exc, exitCause,
          weather_code, condition

vars == <<pc, ev, city, state, lat, lon, weather_data, out, exc, exitCause,
          weather_code, condition>>

(***************************************************************************)
(* Bounds of the input domains.                                            *)
(***************************************************************************)
MaxLocLen == 3
MaxAnsLen == 3
MaxDays == 2
MaxCode == 110

LocChars == {"a", "B", ",", " "}
AnsChars == {"Y", "e", "s", "n", "o", " "}

StringsUpTo(A, n) == UNION {[1..k -> A] : k \in 0..n}

LocLines == StringsUpTo(LocChars, MaxLocLen)
AnsLines == StringsUpTo(AnsChars, MaxAnsLen)

(***************************************************************************)
(* Python values.                                                          *)
(***************************************************************************)
None == [t |-> "None"]
Unbound == [t |-> "unbound"]
Float(x) == [t |-> "float", v |-> x]
Dict(f) == [t |-> "dict", v |-> f]
EmptyDict == Dict(<<>>)

\* bool(v) of a value that is None or a dict
Truthy(v) == v # None /\ DOMAIN v.v # {}

(***************************************************************************)
(* str.strip, str.upper, str.lower, `in` and str.split(",", 1).            *)
(***************************************************************************)
LowerLetters == <<"a","b","c","d","e","f","g","h","i","j","k","l","m",
                  "n","o","p","q","r","s","t","u","v","w","x","y","z">>
UpperLetters == <<"A","B","C","D","E","F","G","H","I","J","K","L","M",
                  "N","O","P","Q","R","S","T","U","V","W","X","Y","Z">>

IsSpace(c) == c \in {" ", "\t", "\n", "\r"}

RECURSIVE lstrip(_)
lstrip(s) == IF s # <<>> /\ IsSpace(Head(s)) THEN lstrip(Tail(s)) ELSE s

RECURSIVE rstrip(_)
rstrip(s) ==
    IF s # <<>> /\ IsSpace(s[Len(s)]) THEN rstrip(SubSeq(s, 1, Len(s) - 1)) ELSE s

strip(s) == rstrip(lstrip(s))

\* the letters' images under str.upper and str.lower
ToUpper == [c \in {LowerLetters[i] : i \in 1..26} |->
               UpperLetters[CHOOSE i \in 1..26 : LowerLetters[i] = c]]
ToLower == [c \in {UpperLetters[i] : i \in 1..26} |->
               LowerLetters[CHOOSE i \in 1..26 : UpperLetters[i] = c]]

upperChar(c) == IF c \in DOMAIN ToUpper THEN ToUpper[c] ELSE c
lowerChar(c) == IF c \in DOMAIN ToLower THEN ToLower[c] ELSE c

upper(s) == [i \in 1..Len(s) |-> upperChar(s[i])]
lower(s) == [i \in 1..Len(s) |-> lowerChar(s[i])]

contains(s, c) == \E i \in 1..Len(s) : s[i] = c

\* s.split(sep, 1) of a string that contains sep: the two parts around the
\* leftmost sep
RECURSIVE split1(_, _)
split1(s, sep) ==
    IF Head(s) = sep
    THEN <<(<<>>), Tail(s)>>
    ELSE LET rest == split1(Tail(s), sep)
         IN  <<(<<Head(s)>>) \o rest[1], rest[2]>>

(***************************************************************************)
(* Exceptions.  KeyboardInterrupt derives from BaseException only; every   *)
(* other exception raised here derives from Exception.                     *)
(***************************************************************************)
NoExc == "none"
GeocodeErrors == {"GeocoderTimedOut", "GeocoderServiceError"}
RequestErrors == {"ConnectionError", "Timeout", "HTTPError"}
ProcessingErrors == {"ValueError"}

IsException(e) == e \notin {"KeyboardInterrupt", "SystemExit", "GeneratorExit"}
IsRequestException(e) == e \in RequestErrors

(***************************************************************************)
(* get_coordinates(city, state).  geocode is the outcome of the Nominatim  *)
(* lookup: a first match, no match, or an exception.                       *)
(***************************************************************************)
Coordinates == {[latitude |-> 0, longitude |-> 0],
                [latitude |-> 30, longitude |-> -98]}

GeocodeOutcomes ==
    {[kind |-> "location", latitude |-> c.latitude, longitude |-> c.longitude] :
        c \in Coordinates}
    \cup {[kind |-> "no_match"]}
    \cup {[kind |-> "raise", exc |-> e] : e \in GeocodeErrors}

\* the query string handed to geolocator.geocode
geocode_query(c, s) == c \o <<",", " ">> \o s \o <<",", " ", "U", "S", "A">>

\* get_coordinates with a handler that catches the timeout alone
get_coordinates_narrow_except(c, s, geocode) ==
    IF geocode.kind = "raise"
    THEN IF geocode.exc = "GeocoderTimedOut"
         THEN [lat |-> None, lon |-> None, exc |-> NoExc,
               out |-> <<[k |-> "error_getting_coordinates", e |-> geocode.exc]>>]
         ELSE [lat |-> None, lon |-> None, exc |-> geocode.exc, out |-> <<>>]
    ELSE IF geocode.kind = "location"
         THEN [lat |-> Float(geocode.latitude), lon |-> Float(geocode.longitude),
               exc |-> NoExc, out |-> <<>>]
         ELSE [lat |-> None, lon |-> None, exc |-> NoExc, out |-> <<>>]

get_coordinates(c, s, geocode) ==
    IF geocode.kind = "raise"
    THEN IF IsException(geocode.exc)
         THEN [lat |-> None, lon |-> None, exc |-> NoExc,
               out |-> <<[k |-> "error_getting_coordinates", e |-> geocode.exc]>>]
         ELSE [lat |-> None, lon |-> None, exc |-> geocode.exc, out |-> <<>>]
    ELSE IF geocode.kind = "location"
         THEN [lat |-> Float(geocode.latitude), lon |-> Float(geocode.longitude),
               exc |-> NoExc, out |-> <<>>]
         ELSE [lat |-> None, lon |-> None, exc |-> NoExc, out |-> <<>>]

(***************************************************************************)
(* get_weather_forecast(latitude, longitude).  http is the outcome of      *)
(* requests.get, raise_for_status and response.json: the decoded body or   *)
(* an exception.                                                           *)
(***************************************************************************)
get_weather_forecast(latitude, longitude, http) ==
    IF http.kind = "raise"
    THEN IF IsRequestException(http.exc)
         THEN [ret |-> None, exc |-> NoExc,
               out |-> <<[k |-> "error_fetching", e |-> http.exc]>>]
         ELSE IF IsException(http.exc)
              THEN [ret |-> None, exc |-> NoExc,
                    out |-> <<[k |-> "error_processing", e |-> http.exc]>>]
              ELSE [ret |-> None, exc |-> http.exc, out |-> <<>>]
    ELSE [ret |-> http.body, exc |-> NoExc, out |-> <<>>]

(***************************************************************************)
(* get_weather_condition(weather_code)                                     *)
(***************************************************************************)
weather_conditions ==
    (0 :> "Clear sky") @@ (1 :> "Mainly clear") @@ (2 :> "Partly cloudy") @@
    (3 :> "Overcast") @@ (45 :> "Fog") @@ (48 :> "Depositing rime fog") @@
    (51 :> "Light drizzle") @@ (53 :> "Moderate drizzle") @@
    (55 :> "Dense drizzle") @@ (56 :> "Light freezing drizzle") @@
    (57 :> "Dense freezing drizzle") @@ (61 :> "Slight rain") @@
    (63 :> "Moderate rain") @@ (65 :> "Heavy rain") @@
    (66 :> "Light freezing rain") @@ (67 :> "Heavy freezing rain") @@
    (71 :> "Slight snow fall") @@ (73 :> "Moderate snow fall") @@
    (75 :> "Heavy snow fall") @@ (77 :> "Snow grains") @@
    (80 :> "Slight rain showers") @@ (81 :> "Moderate rain showers") @@
    (82 :> "Violent rain showers") @@ (85 :> "Slight snow showers") @@
    (86 :> "Heavy snow showers") @@ (95 :> "Thunderstorm") @@
    (96 :> "Thunderstorm with slight hail") @@
    (99 :> "Thunderstorm with heavy hail")

\* get_weather_condition with the default of the lookup left out
get_weather_condition_no_default(code) ==
    IF code \in DOMAIN weather_conditions THEN weather_conditions[code] ELSE ""

get_weather_condition(code) ==
    IF code \in DOMAIN weather_conditions THEN weather_conditions[code] ELSE "Unknown"

(***************************************************************************)
(* format_date(date_string): strptime with "%Y-%m-%d", then strftime with  *)
(* "%A, %B %d"; the string itself when strptime raises ValueError.         *)
(***************************************************************************)
DigitChars == <<"0", "1", "2", "3", "4", "5", "6", "7", "8", "9">>
IsDigit(c) == \E i \in 1..10 : DigitChars[i] = c
DigitValue(c) == (CHOOSE i \in 1..10 : DigitChars[i] = c) - 1

RECURSIVE NumberValue(_)
NumberValue(s) ==
    IF s = <<>> THEN 0
    ELSE 10 * NumberValue(SubSeq(s, 1, Len(s) - 1)) + DigitValue(s[Len(s)])

AllDigits(s) == \A i \in 1..Len(s) : IsDigit(s[i])

IsLeap(y) == (y % 4 = 0 /\ y % 100 # 0) \/ y % 400 = 0
DaysInMonth(y, m) ==
    IF m = 2 THEN (IF IsLeap(y) THEN 29 ELSE 28)
    ELSE IF m \in {4, 6, 9, 11} THEN 30 ELSE 31

\* %m and %d take one or two digits; %d also a space and one digit
IsField(s) ==
    \/ Len(s) \in {1, 2} /\ AllDigits(s)
    \/ Len(s) = 2 /\ s[1] = " " /\ IsDigit(s[2])
FieldValue(s) == IF s[1] = " " THEN DigitValue(s[2]) ELSE NumberValue(s)

\* the [y, m, d] that strptime reads, or ok = FALSE where it raises ValueError
strptime(s) ==
    LET bad == [ok |-> FALSE, y |-> 0, m |-> 0, d |-> 0]
    IN  IF Len(s) < 8 \/ ~AllDigits(SubSeq(s, 1, 4)) \/ s[5] # "-"
        THEN bad
        ELSE LET tail == SubSeq(s, 6, Len(s))
             IN  IF ~contains(tail, "-") THEN bad
                 ELSE LET f == split1(tail, "-")
                          y == NumberValue(SubSeq(s, 1, 4))
                      IN  IF /\ f[1] # <<>> /\ f[2] # <<>>
                             /\ IsField(f[1]) /\ s[6] # " " /\ IsField(f[2])
                             /\ y >= 1
                             /\ FieldValue(f[1]) \in 1..12
                             /\ FieldValue(f[2]) \in 1..DaysInMonth(y, FieldValue(f[1]))
                          THEN [ok |-> TRUE, y |-> y, m |-> FieldValue(f[1]),
                                d |-> FieldValue(f[2])]
                          ELSE bad

WeekdayNames == <<"Sunday", "Monday", "Tuesday", "Wednesday", "Thursday",
                  "Friday", "Saturday">>
MonthNames == <<"January", "February", "March", "April", "May", "June", "July",
                "August", "September", "October", "November", "December">>
MonthOffsets == <<0, 3, 2, 5, 0, 3, 5, 1, 4, 6, 2, 4>>

\* 0 for Sunday .. 6 for Saturday, in the proleptic Gregorian calendar
DayOfWeek(y, m, d) ==
    LET yy == IF m < 3 THEN y - 1 ELSE y
    IN  (yy + (yy \div 4) - (yy \div 100) + (yy \div 400) + MonthOffsets[m] + d) % 7

format_date(date_string) ==
    LET date_obj == strptime(date_string)
    IN  IF date_obj.ok
        THEN <<WeekdayNames[DayOfWeek(date_obj.y, date_obj.m, date_obj.d) + 1],
               ",", " ", MonthNames[date_obj.m], " ",
               DigitChars[(date_obj.d \div 10) + 1], DigitChars[(date_obj.d % 10) + 1]>>
        ELSE date_string

(***************************************************************************)
(* round(x) of a float given in tenths: to the nearest integer, a tie to   *)
(* the even one.                                                           *)
(***************************************************************************)
round(tenths) ==
    LET q == tenths \div 10
        r == tenths % 10
    IN  IF r < 5 THEN q
        ELSE IF r > 5 THEN q + 1
        ELSE IF q % 2 = 0 THEN q ELSE q + 1

(***************************************************************************)
(* display_forecast(weather_data, city, state): the lines it prints and    *)
(* the exception it ends in, if any.  Lists are indexed from 1 here.       *)
(***************************************************************************)
DailyKeys == <<"time", "temperature_2m_max", "temperature_2m_min", "weather_code">>

\* the loop with the low temperature read from max_temps
RECURSIVE forecast_blocks_low_from_max(_, _, _, _, _)
forecast_blocks_low_from_max(dates, max_temps, min_temps, weather_codes, i) ==
    IF i > Len(dates) THEN [out |-> <<>>, exc |-> NoExc]
    ELSE IF i > Len(max_temps) THEN [out |-> <<>>, exc |-> "IndexError"]
    ELSE IF max_temps[i] = None THEN [out |-> <<>>, exc |-> "TypeError"]
    ELSE IF i > Len(weather_codes) THEN [out |-> <<>>, exc |-> "IndexError"]
    ELSE LET rest == forecast_blocks_low_from_max(dates, max_temps, min_temps,
                                                  weather_codes, i + 1)
             block == <<[k |-> "date", date |-> format_date(dates[i])],
                        [k |-> "high_low", high |-> round(max_temps[i].v),
                                           low |-> round(max_temps[i].v)],
                        [k |-> "condition",
                         condition |-> get_weather_condition(weather_codes[i])],
                        [k |-> "blank"]>>
         IN  [out |-> block \o rest.out, exc |-> rest.exc]

RECURSIVE forecast_blocks(_, _, _, _, _)
forecast_blocks(dates, max_temps, min_temps, weather_codes, i) ==
    IF i > Len(dates) THEN [out |-> <<>>, exc |-> NoExc]
    ELSE IF i > Len(max_temps) THEN [out |-> <<>>, exc |-> "IndexError"]
    ELSE IF max_temps[i] = None THEN [out |-> <<>>, exc |-> "TypeError"]
    ELSE IF i > Len(min_temps) THEN [out |-> <<>>, exc |-> "IndexError"]
    ELSE IF min_temps[i] = None THEN [out |-> <<>>, exc |-> "TypeError"]
    ELSE IF i > Len(weather_codes) THEN [out |-> <<>>, exc |-> "IndexError"]
    ELSE LET rest == forecast_blocks(dates, max_temps, min_temps, weather_codes, i + 1)
             block == <<[k |-> "date", date |-> format_date(dates[i])],
                        [k |-> "high_low", high |-> round(max_temps[i].v),
                                           low |-> round(min_temps[i].v)],
                        [k |-> "condition",
                         condition |-> get_weather_condition(weather_codes[i])],
                        [k |-> "blank"]>>
         IN  [out |-> block \o rest.out, exc |-> rest.exc]

\* the statements after the guard: the four lookups, the header, the loop
forecast_report(daily, c, s) ==
    IF \E j \in 1..4 : DailyKeys[j] \notin DOMAIN daily
    THEN [out |-> <<>>, exc |-> "KeyError"]
    ELSE LET loop == forecast_blocks(daily["time"],
                                     daily["temperature_2m_max"],
                                     daily["temperature_2m_min"],
                                     daily["weather_code"], 1)
         IN  [out |-> <<[k |-> "header", city |-> c, state |-> s],
                        [k |-> "rule"]>> \o loop.out,
              exc |-> loop.exc]

\* display_forecast with a guard that tests the response alone, not the key
display_forecast_no_key_check(data, c, s) ==
    IF ~Truthy(data)
    THEN [out |-> <<[k |-> "error_no_data"]>>, exc |-> NoExc]
    ELSE IF "daily" \notin DOMAIN data.v
    THEN [out |-> <<>>, exc |-> "KeyError"]
    ELSE forecast_report(data.v["daily"], c, s)

display_forecast(data, c, s) ==
    IF ~Truthy(data) \/ "daily" \notin DOMAIN data.v
    THEN [out |-> <<[k |-> "error_no_data"]>>, exc |-> NoExc]
    ELSE forecast_report(data.v["daily"], c, s)

(***************************************************************************)
(* The decoded forecast bodies.                                            *)
(***************************************************************************)
Dates == {<<"2", "0", "2", "4", "-", "0", "3", "-", "1", "5">>, <<"n", "/", "a">>}
Temps == {Float(725), Float(-15)}
Codes == {61, 42}

Daily(t, hi, lo, wc) ==
    [time |-> t, temperature_2m_max |-> hi, temperature_2m_min |-> lo,
     weather_code |-> wc]

\* every daily object whose four arrays hold at most n entries each
Dailies(n) ==
    {Daily(t, hi, lo, wc) :
        t \in StringsUpTo(Dates, n), hi \in StringsUpTo(Temps, n),
        lo \in StringsUpTo(Temps, n), wc \in StringsUpTo(Codes, n)}

OneDay ==
    Daily(<<<<"2", "0", "2", "4", "-", "0", "3", "-", "1", "5">>>>,
          <<Float(725)>>, <<Float(-15)>>, <<61>>)

\* a daily object that lacks one of the four keys
PartialDailies ==
    {[key \in {DailyKeys[j] : j \in 1..4} \ {DailyKeys[i]} |-> OneDay[key]] :
        i \in 1..4}

\* daily objects in which the service reports a temperature as null
NullDailies ==
    {Daily(OneDay.time, <<None>>, <<Float(725)>>, <<61>>),
     Daily(OneDay.time, <<Float(725)>>, <<None>>, <<61>>),
     Daily(OneDay.time \o OneDay.time, <<Float(725), None>>,
           <<Float(-15), Float(-15)>>, <<61, 42>>)}

ForecastResponses(n) ==
    {None, EmptyDict, Dict([error |-> TRUE])}
    \cup {Dict([daily |-> d]) : d \in Dailies(n) \cup PartialDailies \cup NullDailies}

\* the bodies the forecast service answers with in a run of main()
SampleResponses ==
    {EmptyDict, Dict([error |-> TRUE]), Dict([daily |-> OneDay]),
     Dict([daily |-> Daily(OneDay.time, <<>>, <<Float(725)>>, <<61>>)]),
     Dict([daily |-> Daily(OneDay.time, <<None>>, <<Float(725)>>, <<61>>)]),
     Dict([daily |-> [time |-> OneDay.time]])}

HttpOutcomes ==
    {[kind |-> "raise", exc |-> e] : e \in RequestErrors \cup ProcessingErrors}
    \cup {[kind |-> "json", body |-> b] : b \in SampleResponses}

(***************************************************************************)
(* main()                                                                  *)
(***************************************************************************)
\* the statements inside the try block of the outer loop
TryRegion == {"prompt", "validate", "geocode", "fetch", "display", "confirm", "answer"}

\* main() without its `except Exception` clause
main_handler_interrupt_only(p, e) ==
    IF p \in TryRegion /\ e = "KeyboardInterrupt" THEN "farewell" ELSE "fault"

\* where control goes when exception e is raised while pc = p
main_handler(p, e) ==
    IF p \in TryRegion
    THEN IF e = "KeyboardInterrupt" THEN "farewell"
         ELSE IF IsException(e) THEN "except"
         ELSE "fault"
    ELSE "fault"

NoEvent == [kind |-> "none"]

\* the validation without its test for an empty line
input_error_no_empty_check(location_input) ==
    IF ~contains(location_input, ",") THEN "use_format" ELSE "none"

\* the message for a line that is refused, "none" for a line that is parsed
input_error(location_input) ==
    IF location_input = <<>> THEN "enter_valid"
    ELSE IF ~contains(location_input, ",") THEN "use_format"
    ELSE "none"

\* the parser without .upper() on the state
parse_location_no_upper(location_input) ==
    LET parts == split1(location_input, ",")
    IN  [city |-> strip(parts[1]), state |-> strip(parts[2])]

\* city and state of a line that holds a comma
parse_location(location_input) ==
    LET parts == split1(location_input, ",")
    IN  [city |-> strip(parts[1]), state |-> upper(strip(parts[2]))]

\* the loop with a `continue` after the failed fetch
after_forecast_continue(data) == IF Truthy(data) THEN "display" ELSE "prompt"

\* where the loop goes once get_weather_forecast has returned
after_forecast(data) == IF Truthy(data) THEN "display" ELSE "confirm"

\* the continuation prompt accepting the one-letter answers alone
answer_branch_short_only(another) ==
    IF another = <<"y">> THEN "continue"
    ELSE IF another = <<"n">> THEN "exit"
    ELSE "reprompt"

\* what the answer at the continuation prompt leads to
answer_branch(another) ==
    IF another \in {<<"y">>, <<"y", "e", "s">>} THEN "continue"
    ELSE IF another \in {<<"n">>, <<"n", "o">>} THEN "exit"
    ELSE "reprompt"

ResetLocals ==
    /\ city' = <<>>
    /\ state' = <<>>
    /\ lat' = Unbound
    /\ lon' = Unbound
    /\ weather_data' = Unbound

Raise(e) ==
    /\ pc' = main_handler(pc, e)
    /\ exc' = e
    /\ exitCause' = IF pc' # "fault" THEN exitCause
                    ELSE IF e = "KeyboardInterrupt" THEN "interrupt" ELSE "error"
    /\ ResetLocals

Init ==
    /\ pc = "banner"
    /\ ev = NoEvent
    /\ city = <<>>
    /\ state = <<>>
    /\ lat = Unbound
    /\ lon = Unbound
    /\ weather_data = Unbound
    /\ out = <<>>
    /\ exc = NoExc
    /\ exitCause = "running"
    /\ weather_code = 0
    /\ condition = ""

Banner ==
    /\ pc = "banner"
    /\ pc' = "prompt"
    /\ ev' = NoEvent
    /\ out' = <<[k |-> "title"], [k |-> "title_rule"]>>
    /\ UNCHANGED <<city, state, lat, lon, weather_data, exc, exitCause,
                   weather_code, condition>>

\* input() at the location prompt returns a line
EnterLocation(line) ==
    /\ pc = "prompt"
    /\ pc' = "validate"
    /\ ev' = [kind |-> "line", text |-> line]
    /\ out' = <<[k |-> "location_prompt"]>>
    /\ ResetLocals
    /\ UNCHANGED <<exc, exitCause, weather_code, condition>>

\* the line is trimmed, validated and parsed
ValidateLocation ==
    /\ pc = "validate"
    /\ ev' = NoEvent
    /\ LET location_input == strip(ev.text)
       IN  IF input_error(location_input) # "none"
           THEN /\ out' = <<[k |-> input_error(location_input)]>>
                /\ pc' = "prompt"
                /\ UNCHANGED <<city, state>>
           ELSE /\ city' = parse_location(location_input).city
                /\ state' = parse_location(location_input).state
                /\ out' = <<[k |-> "looking_up", city |-> city', state |-> state']>>
                /\ pc' = "geocode"
    /\ UNCHANGED <<lat, lon, weather_data, exc, exitCause, weather_code, condition>>

\* input() raises EOFError at either prompt
InputEOF ==
    /\ pc \in {"prompt", "confirm"}
    /\ ev' = [kind |-> "eof"]
    /\ out' = <<>>
    /\ Raise("EOFError")
    /\ UNCHANGED <<weather_code, condition>>

GetCoordinates(geocode) ==
    /\ pc = "geocode"
    /\ ev' = [kind |-> "geocode", query |-> geocode_query(city, state),
              outcome |-> geocode]
    /\ LET r == get_coordinates(city, state, geocode)
       IN  IF r.exc # NoExc
           THEN /\ out' = r.out
                /\ Raise(r.exc)
           ELSE IF r.lat = None \/ r.lon = None
           THEN /\ out' = r.out \o <<[k |-> "could_not_find", city |-> city,
                                       state |-> state],
                                      [k |-> "check_spelling"]>>
                /\ pc' = "prompt"
                /\ lat' = r.lat
                /\ lon' = r.lon
                /\ UNCHANGED <<city, state, weather_data, exc, exitCause>>
           ELSE /\ lat' = r.lat
                /\ lon' = r.lon
                /\ out' = r.out \o <<[k |-> "found", lat |-> r.lat, lon |-> r.lon],
                                      [k |-> "fetching"]>>
                /\ pc' = "fetch"
                /\ UNCHANGED <<city, state, weather_data, exc, exitCause>>
    /\ UNCHANGED <<weather_code, condition>>

GetWeatherForecast(http) ==
    /\ pc = "fetch"
    /\ ev' = [kind |-> "http", outcome |-> http]
    /\ LET r == get_weather_forecast(lat, lon, http)
       IN  IF r.exc # NoExc
           THEN /\ out' = r.out
                /\ Raise(r.exc)
           ELSE IF after_forecast(r.ret) = "display"
           THEN /\ weather_data' = r.ret
                /\ out' = r.out
                /\ pc' = "display"
                /\ lat' = Unbound
                /\ lon' = Unbound
                /\ UNCHANGED <<city, state, exc, exitCause>>
           ELSE /\ out' = r.out \o <<[k |-> "failed_to_retrieve"]>>
                /\ pc' = after_forecast(r.ret)
                /\ ResetLocals
                /\ UNCHANGED <<exc, exitCause>>
    /\ UNCHANGED <<weather_code, condition>>

DisplayForecast ==
    /\ pc = "display"
    /\ ev' = NoEvent
    /\ LET r == display_forecast(weather_data, city, state)
       IN  /\ out' = r.out
           /\ IF r.exc # NoExc
              THEN Raise(r.exc)
              ELSE /\ pc' = "confirm"
                   /\ ResetLocals
                   /\ UNCHANGED <<exc, exitCause>>
    /\ UNCHANGED <<weather_code, condition>>

\* input() at the 'Check another location?' prompt returns a line
EnterAnswer(line) ==
    /\ pc = "confirm"
    /\ pc' = "answer"
    /\ ev' = [kind |-> "line", text |-> line]
    /\ out' = <<[k |-> "another_prompt"]>>
    /\ UNCHANGED <<city, state, lat, lon, weather_data, exc, exitCause,
                   weather_code, condition>>

\* the answer is trimmed, lowercased and acted on
CheckAnswer ==
    /\ pc = "answer"
    /\ ev' = NoEvent
    /\ LET another == lower(strip(ev.text))
       IN  IF answer_branch(another) = "continue"
           THEN /\ pc' = "prompt"
                /\ out' = <<>>
                /\ UNCHANGED exitCause
           ELSE IF answer_branch(another) = "exit"
           THEN /\ pc' = "done"
                /\ out' = <<[k |-> "thanks"]>>
                /\ exitCause' = "no"
           ELSE /\ pc' = "confirm"
                /\ out' = <<[k |-> "enter_y_or_n"]>>
                /\ UNCHANGED exitCause
    /\ UNCHANGED <<city, state, lat, lon, weather_data, exc, weather_code, condition>>

\* the user interrupts whatever main() is doing
Interrupt ==
    /\ pc \in TryRegion \cup {"banner", "except", "farewell"}
    /\ ev' = [kind |-> "interrupt"]
    /\ out' = <<>>
    /\ Raise("KeyboardInterrupt")
    /\ UNCHANGED <<weather_code, condition>>

\* except KeyboardInterrupt: the farewell, then return
Farewell ==
    /\ pc = "farewell"
    /\ pc' = "done"
    /\ ev' = NoEvent
    /\ out' = <<[k |-> "thanks"]>>
    /\ exitCause' = "interrupt"
    /\ UNCHANGED <<city, state, lat, lon, weather_data, exc, weather_code, condition>>

\* except Exception: the generic report, then the next iteration
HandleException ==
    /\ pc = "except"
    /\ pc' = "prompt"
    /\ ev' = NoEvent
    /\ out' = <<[k |-> "unexpected_error", e |-> exc], [k |-> "try_again"]>>
    /\ exc' = NoExc
    /\ UNCHANGED <<city, state, lat, lon, weather_data, exitCause,
                   weather_code, condition>>

Next ==
    \/ Banner
    \/ \E line \in LocLines : EnterLocation(line)
    \/ ValidateLocation
    \/ InputEOF
    \/ \E geocode \in GeocodeOutcomes : GetCoordinates(geocode)
    \/ \E http \in HttpOutcomes : GetWeatherForecast(http)
    \/ DisplayForecast
    \/ \E line \in AnsLines : EnterAnswer(line)
    \/ CheckAnswer
    \/ Interrupt
    \/ Farewell
    \/ HandleException

Spec == Init /\ [][Next]_vars

(***************************************************************************)
(* display_forecast called on its own, on every body and on None.          *)
(***************************************************************************)
InitDisplay ==
    /\ pc = "call"
    /\ ev = NoEvent
    /\ city = <<"a">>
    /\ state = <<"B">>
    /\ lat = Unbound
    /\ lon = Unbound
    /\ weather_data \in ForecastResponses(MaxDays)
    /\ out = <<>>
    /\ exc = NoExc
    /\ exitCause = "running"
    /\ weather_code = 0
    /\ condition = ""

CallDisplayForecast ==
    /\ pc = "call"
    /\ pc' = "returned"
    /\ LET r == display_forecast(weather_data, city, state)
       IN  /\ out' = r.out
           /\ exc' = r.exc
    /\ UNCHANGED <<ev, city, state, lat, lon, weather_data, exitCause,
                   weather_code, condition>>

NextDisplay == CallDisplayForecast

SpecDisplay == InitDisplay /\ [][NextDisplay]_vars

(***************************************************************************)
(* get_weather_condition called on its own, on every code of a range.      *)
(***************************************************************************)
InitCondition ==
    /\ pc = "call"
    /\ ev = NoEvent
    /\ city = <<>>
    /\ state = <<>>
    /\ lat = Unbound
    /\ lon = Unbound
    /\ weather_data = Unbound
    /\ out = <<>>
    /\ exc = NoExc
    /\ exitCause = "running"
    /\ weather_code \in -MaxCode..MaxCode
    /\ condition = ""

CallGetWeatherCondition ==
    /\ pc = "call"
    /\ pc' = "returned"
    /\ condition' = get_weather_condition(weather_code)
    /\ UNCHANGED <<ev, city, state, lat, lon, weather_data, out, exc, exitCause,
                   weather_code>>

NextCondition == CallGetWeatherCondition

SpecCondition == InitCondition /\ [][NextCondition]_vars

(***************************************************************************)
(* Properties.  The vocabulary below describes a line of input without     *)
(* the operators main() is modelled with.                                  *)
(***************************************************************************)
AllBlank(s) == \A i \in 1..Len(s) : IsSpace(s[i])
HasComma(s) == \E i \in 1..Len(s) : s[i] = ","
FirstComma(s) ==
    CHOOSE i \in 1..Len(s) : s[i] = "," /\ \A j \in 1..(i - 1) : s[j] # ","

\* s without its leading and trailing whitespace
Trimmed(s) ==
    IF AllBlank(s) THEN <<>>
    ELSE LET lo == CHOOSE i \in 1..Len(s) :
                       ~IsSpace(s[i]) /\ \A j \in 1..(i - 1) : IsSpace(s[j])
             hi == CHOOSE i \in 1..Len(s) :
                       ~IsSpace(s[i]) /\ \A j \in (i + 1)..Len(s) : IsSpace(s[j])
         IN  SubSeq(s, lo, hi)

\* s is the lowercase word w, in any case, between whitespace
IsWord(s, w) ==
    \E lead \in 0..Len(s) :
        /\ lead + Len(w) <= Len(s)
        /\ \A i \in 1..lead : IsSpace(s[i])
        /\ \A i \in 1..Len(w) : s[lead + i] \in {w[i], upperChar(w[i])}
        /\ \A i \in (lead + Len(w) + 1)..Len(s) : IsSpace(s[i])

IsYes(s) == IsWord(s, <<"y">>) \/ IsWord(s, <<"y", "e", "s">>)
IsNo(s) == IsWord(s, <<"n">>) \/ IsWord(s, <<"n", "o">>)

\* the step is taken by main() itself, not by an interrupt of it
ProgramStep == ev'.kind # "interrupt"

GeocodeFailed(o) == o.kind \in {"no_match", "raise"}
FetchFailed(o) == o.kind = "raise" \/ DOMAIN o.body.v = {}
LastLine(o) == o[Len(o)]

\* C1: a location line that is blank or holds no comma gets its own error
\* message and leads back to the location prompt: no lookup, no forecast, no
\* display, no continuation prompt.
C1_InvalidLineReprompts ==
    [][(pc = "validate" /\ ProgramStep
            /\ (AllBlank(ev.text) \/ ~HasComma(ev.text)))
        => /\ pc' = "prompt"
           /\ out' = <<[k |-> IF AllBlank(ev.text) THEN "enter_valid"
                              ELSE "use_format"]>>
           /\ UNCHANGED <<city, state, lat, lon, weather_data>>]_vars

C1_Witness == pc = "prompt" /\ out = <<[k |-> "use_format"]>>

\* C2: when the lookup finds no match or raises an error, get_coordinates
\* returns None for both coordinates and main() prints "Could not find
\* coordinates for <city>, <state>." and goes back to the location prompt;
\* get_weather_forecast is called only with the two non-null coordinates
\* that get_coordinates returned in the same iteration.
C2_GeocodeFailure ==
    [][/\ (pc = "geocode" /\ ev'.kind = "geocode" /\ GeocodeFailed(ev'.outcome))
            => /\ lat' = None
               /\ lon' = None
               /\ pc' = "prompt"
               /\ Len(out') >= 2
               /\ out'[Len(out') - 1] =
                      [k |-> "could_not_find", city |-> city, state |-> state]
       /\ (pc' = "fetch")
            => /\ pc = "geocode"
               /\ ev'.kind = "geocode"
               /\ ev'.outcome.kind = "location"
               /\ lat' = Float(ev'.outcome.latitude)
               /\ lon' = Float(ev'.outcome.longitude)]_vars

C2_Witness ==
    /\ pc = "prompt"
    /\ lat = None
    /\ lon = None
    /\ out # <<>>
    /\ LastLine(out) = [k |-> "check_spelling"]

\* C3 as claimed: a failure of validation, of the lookup or of the fetch
\* restarts the outer loop at the location prompt, and the inner loop is
\* entered only after display_forecast was attempted.
C3_AnyFailureSkipsInnerLoop ==
    [][/\ (pc = "validate" /\ ProgramStep
              /\ (AllBlank(ev.text) \/ ~HasComma(ev.text))) => pc' = "prompt"
       /\ (pc = "geocode" /\ ev'.kind = "geocode" /\ GeocodeFailed(ev'.outcome))
              => pc' = "prompt"
       /\ (pc = "fetch" /\ ev'.kind = "http" /\ FetchFailed(ev'.outcome))
              => pc' = "prompt"
       /\ (pc' = "confirm" /\ pc # "answer") => pc = "display"]_vars

\* C3 as amended: a failure of validation or of the lookup restarts the
\* outer loop at the location prompt; a failed fetch (an error, or an empty
\* body) prints "Failed to retrieve weather data. Please try again." and
\* enters the inner loop without display_forecast; the inner loop is entered
\* only from a display that returned or from a failed fetch.
C3_FetchFailureEntersInnerLoop ==
    [][/\ (pc = "validate" /\ ProgramStep
              /\ (AllBlank(ev.text) \/ ~HasComma(ev.text))) => pc' = "prompt"
       /\ (pc = "geocode" /\ ev'.kind = "geocode" /\ GeocodeFailed(ev'.outcome))
              => pc' = "prompt"
       /\ (pc = "fetch" /\ ev'.kind = "http" /\ FetchFailed(ev'.outcome))
              => /\ pc' = "confirm"
                 /\ LastLine(out') = [k |-> "failed_to_retrieve"]
       /\ (pc' = "confirm" /\ pc # "answer")
              => \/ pc = "display"
                 \/ pc = "fetch" /\ ev'.kind = "http" /\ FetchFailed(ev'.outcome)]_vars

C3_Witness ==
    /\ pc = "confirm"
    /\ out # <<>>
    /\ LastLine(out) = [k |-> "failed_to_retrieve"]

\* C4: whatever the inputs and the outcomes of the two services, main() has
\* ended only by an 'n'/'no' answer or by an interrupt of the user; an
\* exception other than the interrupt never ends it.
C4_ExitOnlyByNoOrInterrupt ==
    /\ pc \in {"done", "fault"} => exitCause \in {"no", "interrupt"}
    /\ pc \notin {"done", "fault"} => exitCause = "running"
    /\ pc = "fault" => exc = "KeyboardInterrupt"

C4_Witness == pc = "done" /\ exitCause = "interrupt"

\* C5 as claimed: an interrupt at any point of main() ends in the farewell
\* and a normal return, never in the interrupt leaving main().
C5_InterruptNeverPropagates == ~(pc = "fault" /\ exc = "KeyboardInterrupt")

\* C6: at the continuation prompt 'y'/'yes' (trimmed, in any case) leads to
\* the location prompt, 'n'/'no' prints the farewell and ends the program,
\* anything else prints the hint and shows the same prompt again; the inner
\* loop never runs the lookup, the fetch or the display.
C6_ContinuationPrompt ==
    [][/\ (pc = "answer" /\ ProgramStep)
            => IF IsYes(ev.text) THEN pc' = "prompt" /\ out' = <<>>
               ELSE IF IsNo(ev.text)
               THEN pc' = "done" /\ out' = <<[k |-> "thanks"]>>
               ELSE pc' = "confirm" /\ out' = <<[k |-> "enter_y_or_n"]>>
       /\ (pc \in {"confirm", "answer"})
            => pc' \notin {"geocode", "fetch", "display"}]_vars

C6_Witness == pc = "confirm" /\ out = <<[k |-> "enter_y_or_n"]>>

\* C7: on a response that is None or has no "daily" key display_forecast
\* prints the one error line, no header and no block, and returns normally.
C7_NoDailyOneErrorLine ==
    (pc = "returned" /\ (weather_data = None \/ "daily" \notin DOMAIN weather_data.v))
        => out = <<[k |-> "error_no_data"]>> /\ exc = NoExc

C7_Witness ==
    /\ pc = "returned"
    /\ weather_data = Dict([error |-> TRUE])
    /\ out = <<[k |-> "error_no_data"]>>

\* C8: of a line that holds a comma, city is the text before the first comma,
\* trimmed, in its own case; state is all the text after the first comma,
\* trimmed and uppercased; the lookup follows with these two values, also
\* when one of them is empty.
C8_ParseAtFirstComma ==
    [][(pc = "validate" /\ ProgramStep /\ HasComma(ev.text))
        => LET i == FirstComma(ev.text)
               after == Trimmed(SubSeq(ev.text, i + 1, Len(ev.text)))
           IN  /\ pc' = "geocode"
               /\ city' = Trimmed(SubSeq(ev.text, 1, i - 1))
               /\ Len(state') = Len(after)
               /\ \A j \in 1..Len(after) :
                      state'[j] = IF after[j] \in DOMAIN ToUpper
                                  THEN ToUpper[after[j]] ELSE after[j]]_vars

C8_Witness == pc = "geocode" /\ city = <<>> /\ state = <<"A", ",">>

\* C9: get_weather_condition returns on every integer: the label of the code
\* when it is one of the 28 known codes, "Unknown" otherwise; 0 is "Clear
\* sky", 61 is "Slight rain", 42 is "Unknown", and no known code is "Unknown".
KnownCodes ==
    {0, 1, 2, 3, 45, 48, 51, 53, 55, 56, 57, 61, 63, 65, 66, 67, 71, 73, 75, 77,
     80, 81, 82, 85, 86, 95, 96, 99}

C9_ConditionTotal ==
    pc = "returned"
        => /\ DOMAIN weather_conditions = KnownCodes
           /\ Cardinality(KnownCodes) = 28
           /\ weather_code \in KnownCodes
                => condition = weather_conditions[weather_code] /\ condition # "Unknown"
           /\ weather_code \notin KnownCodes => condition = "Unknown"
           /\ weather_code = 0 => condition = "Clear sky"
           /\ weather_code = 61 => condition = "Slight rain"
           /\ weather_code = 42 => condition = "Unknown"

C9_Witness == pc = "returned" /\ weather_code = 42 /\ condition = "Unknown"

\* C10: what display_forecast does with the four arrays of a daily object.
HasFourArrays(data) ==
    IF data = None \/ "daily" \notin DOMAIN data.v THEN FALSE
    ELSE \A j \in 1..4 : DailyKeys[j] \in DOMAIN data.v["daily"]

NumericTemps(d) ==
    /\ \A i \in 1..Len(d.temperature_2m_max) : d.temperature_2m_max[i] # None
    /\ \A i \in 1..Len(d.temperature_2m_min) : d.temperature_2m_min[i] # None

SameLengths(d) ==
    /\ Len(d.temperature_2m_max) = Len(d.time)
    /\ Len(d.temperature_2m_min) = Len(d.time)
    /\ Len(d.weather_code) = Len(d.time)

\* an array other than time ends before time does
ShorterThanTime(d) ==
    \/ Len(d.temperature_2m_max) < Len(d.time)
    \/ Len(d.temperature_2m_min) < Len(d.time)
    \/ Len(d.weather_code) < Len(d.time)

\* the number of indices all of the three other arrays have
Shortest(d) ==
    CHOOSE m \in 0..(Len(d.temperature_2m_max)) :
        /\ m <= Len(d.temperature_2m_min)
        /\ m <= Len(d.weather_code)
        /\ \/ m = Len(d.temperature_2m_max)
           \/ m = Len(d.temperature_2m_min)
           \/ m = Len(d.weather_code)

ExpectedBlock(d, i) ==
    <<[k |-> "date", date |-> format_date(d.time[i])],
      [k |-> "high_low", high |-> round(d.temperature_2m_max[i].v),
                         low |-> round(d.temperature_2m_min[i].v)],
      [k |-> "condition", condition |-> get_weather_condition(d.weather_code[i])],
      [k |-> "blank"]>>

\* the header, then exactly m blocks, block i built from element i
PrintsBlocks(d, m) ==
    /\ Len(out) = 2 + 4 * m
    /\ out[1] = [k |-> "header", city |-> city, state |-> state]
    /\ out[2] = [k |-> "rule"]
    /\ \A i \in 1..m : SubSeq(out, 4 * i - 1, 4 * i + 2) = ExpectedBlock(d, i)

\* C10 as claimed: arrays that are not all of one length end the display in
\* an out-of-range failure; arrays of one length n give n blocks in order.
C10_AnyMismatchFails ==
    (pc = "returned" /\ HasFourArrays(weather_data))
        => LET d == weather_data.v["daily"]
           IN  IF SameLengths(d)
               THEN exc = NoExc /\ PrintsBlocks(d, Len(d.time))
               ELSE exc = "IndexError"

\* C10 as amended, for temperatures that are numbers: the display fails out
\* of range exactly when max, min or code is shorter than time, after the
\* blocks of the indices all three have; otherwise it returns normally with
\* one block per entry of time, block i built from element i of each array.
C10_FailsWhenShorterThanTime ==
    (pc = "returned" /\ HasFourArrays(weather_data)
         /\ NumericTemps(weather_data.v["daily"]))
        => LET d == weather_data.v["daily"]
           IN  IF ShorterThanTime(d)
               THEN exc = "IndexError" /\ PrintsBlocks(d, Shortest(d))
               ELSE exc = NoExc /\ PrintsBlocks(d, Len(d.time))

C10_Witness ==
    /\ pc = "returned"
    /\ exc = "IndexError"
    /\ Len(out) > 2
====
